---- MODULE Spec2Model ----
(***************************************************************************)
(* Request dispatch, argument validation, upstream adaptation and error    *)
(* translation of the Rijksmuseum MCP server: ToolHandler,                 *)
(* RijksmuseumApiClient, the type guards, ErrorHandler and                 *)
(* SystemIntegration.                                                      *)
(*                                                                         *)
(* One tool call is followed from its arrival to its outcome.  An async    *)
(* handler is cut at its await: the Handle... action runs the code up to   *)
(* the await (validation, the outbound call), the Resume... action runs    *)
(* the code after it (response check, formatting, error translation).      *)
(***************************************************************************)
EXTENDS Integers, Sequences, FiniteSets, TLC

(***************************************************************************)
(* Bounds of the model.                                                    *)
(***************************************************************************)
\* the largest number of fields a search_artwork argument bag carries
MaxFields == 3

(***************************************************************************)
(* JavaScript values.  Every value is a record of one shape, so that any   *)
(* two values can be compared.  Numbers are integers or NaN.               *)
(***************************************************************************)
Undefined == [t |-> "undefined", s |-> "", n |-> 0, b |-> FALSE]
Null      == [t |-> "null",      s |-> "", n |-> 0, b |-> FALSE]
Obj       == [t |-> "object",    s |-> "", n |-> 0, b |-> FALSE]
NaN       == [t |-> "number",    s |-> "NaN", n |-> 0, b |-> FALSE]
Str(x)    == [t |-> "string",    s |-> x,  n |-> 0, b |-> FALSE]
Num(x)    == [t |-> "number",    s |-> "", n |-> x, b |-> FALSE]
Bool(x)   == [t |-> "boolean",   s |-> "", n |-> 0, b |-> x]

\* typeof v
TypeOf(v) == IF v.t = "null" THEN "object" ELSE v.t

IsNaN(v) == v.t = "number" /\ v.s = "NaN"

\* !!v
Truthy(v) ==
  CASE v.t = "undefined" -> FALSE
    [] v.t = "null"      -> FALSE
    [] v.t = "string"    -> v.s # ""
    [] v.t = "number"    -> ~IsNaN(v) /\ v.n # 0
    [] v.t = "boolean"   -> v.b
    [] OTHER             -> TRUE

\* s.startsWith(prefix)
StartsWith(s, prefix) ==
  Len(s) >= Len(prefix) /\ SubSeq(s, 1, Len(prefix)) = prefix

Digits == {"0", "1", "2", "3", "4", "5", "6", "7", "8", "9"}

IsDigit(c) == c \in Digits

DigitValue(c) ==
  CASE c = "0" -> 0 [] c = "1" -> 1 [] c = "2" -> 2 [] c = "3" -> 3
    [] c = "4" -> 4 [] c = "5" -> 5 [] c = "6" -> 6 [] c = "7" -> 7
    [] c = "8" -> 8 [] OTHER -> 9

AllDigits(s) == \A i \in 1..Len(s) : IsDigit(SubSeq(s, i, i))

RECURSIVE DecimalValue(_)
DecimalValue(s) ==
  IF Len(s) = 0 THEN 0
  ELSE 10 * DecimalValue(SubSeq(s, 1, Len(s) - 1))
       + DigitValue(SubSeq(s, Len(s), Len(s)))

\* ToNumber(v), the coercion JavaScript applies to the operands of * < >
ToNumber(v) ==
  CASE v.t = "number"    -> v
    [] v.t = "undefined" -> NaN
    [] v.t = "null"      -> Num(0)
    [] v.t = "boolean"   -> Num(IF v.b THEN 1 ELSE 0)
    [] v.t = "string"    -> IF AllDigits(v.s) THEN Num(DecimalValue(v.s)) ELSE NaN
    [] OTHER             -> NaN

\* a * b
Times(a, b) ==
  LET x == ToNumber(a)
      y == ToNumber(b)
  IN  IF IsNaN(x) \/ IsNaN(y) THEN NaN ELSE Num(x.n * y.n)

\* a > k and a < k for a number k: false when a is NaN
GreaterThan(a, k) == LET x == ToNumber(a) IN ~IsNaN(x) /\ x.n > k
LessThan(a, k)    == LET x == ToNumber(a) IN ~IsNaN(x) /\ x.n < k

\* v ?? d
Nullish(v, d) == IF v.t \in {"undefined", "null"} THEN d ELSE v

\* { x = d } destructuring default: only undefined takes the default
Default(v, d) == IF v.t = "undefined" THEN d ELSE v

\* String(v), as a template literal or encodeURIComponent coerces it
JsString(v) ==
  CASE v.t = "string"    -> v.s
    [] v.t = "undefined" -> "undefined"
    [] v.t = "null"      -> "null"
    [] v.t = "boolean"   -> IF v.b THEN "true" ELSE "false"
    [] v.t = "number"    -> IF IsNaN(v) THEN "NaN" ELSE ToString(v.n)
    [] OTHER             -> "[object Object]"

(***************************************************************************)
(* Argument bags.  request.params.arguments is absent (undefined) or an    *)
(* object; a field the object does not carry reads as undefined.           *)
(***************************************************************************)
SearchFields == {"q", "involvedMaker", "type", "material", "technique",
                 "century", "color", "imgonly", "toppieces", "sortBy",
                 "p", "ps", "culture"}

AllFields == SearchFields \cup {"objectNumber", "setId", "page", "pageSize",
                                "imageUrl", "artist", "maxWorks"}

EmptyBag == [f \in AllFields |-> Undefined]

NoArguments == [defined |-> FALSE, f |-> EmptyBag]

Arguments(bag) == [defined |-> TRUE, f |-> bag]

(***************************************************************************)
(* Errors.  cls is the JavaScript class of the thrown value; code is the   *)
(* ErrorCode of an McpError and "" for every other class.                  *)
(***************************************************************************)
Error(msg)          == [cls |-> "Error", code |-> "", message |-> msg]
TypeError(msg)      == [cls |-> "TypeError", code |-> "", message |-> msg]
McpError(code, msg) == [cls |-> "McpError", code |-> code, message |-> msg]
NoError             == [cls |-> "", code |-> "", message |-> ""]

\* ErrorHandler.handleError: what it throws for the error it is given.  No
\* AxiosError reaches it from the client, whose response interceptor
\* replaces every one by a plain Error.
handleError(error) ==
  CASE error.cls = "AxiosError" ->
         McpError("InternalError", "Rijksmuseum API error: " \o error.message)
    [] error.cls = "McpError" -> error
    [] error.cls \in {"Error", "TypeError"} ->
         McpError("InternalError", error.message)
    [] OTHER -> McpError("InternalError", "An unknown error occurred")

\* ErrorHandler.validateRequiredParam: the error it throws, NoError if none
validateRequiredParam(param, paramName) ==
  IF param.t \in {"undefined", "null"}
  THEN McpError("InvalidRequest", "Missing required parameter: " \o paramName)
  ELSE NoError

\* const { a, b = d } = request.params.arguments, on absent arguments
DestructureError(firstField) ==
  TypeError("Cannot destructure property '" \o firstField
            \o "' of 'request.params.arguments' as it is undefined.")

(***************************************************************************)
(* Type guards.                                                            *)
(***************************************************************************)
SortKeys == {"relevance", "objecttype", "chronologic", "achronologic",
             "artist", "artistdesc"}

Cultures == {"nl", "en"}

\* the membership test loosened to a type test: any string passes
IncludesAnyString(strings, v) == v.t = "string"

\* array.includes(v) over an array of strings: strict equality
Includes(strings, v) == v.t = "string" /\ v.s \in strings

\* params.x !== undefined && typeof params.x !== ty
WrongType(v, ty) == v.t # "undefined" /\ TypeOf(v) # ty

\* "Check types of optional parameters if they exist"
TypesOk(params) ==
  IF WrongType(params["q"], "string") THEN FALSE
  ELSE IF WrongType(params["involvedMaker"], "string") THEN FALSE
  ELSE IF WrongType(params["type"], "string") THEN FALSE
  ELSE IF WrongType(params["material"], "string") THEN FALSE
  ELSE IF WrongType(params["technique"], "string") THEN FALSE
  ELSE IF WrongType(params["century"], "number") THEN FALSE
  ELSE IF WrongType(params["color"], "string") THEN FALSE
  ELSE IF WrongType(params["imgonly"], "boolean") THEN FALSE
  ELSE IF WrongType(params["toppieces"], "boolean") THEN FALSE
  ELSE IF WrongType(params["p"], "number") THEN FALSE
  ELSE IF WrongType(params["ps"], "number") THEN FALSE
  ELSE IF params["culture"].t # "undefined"
          /\ ~Includes(Cultures, params["culture"]) THEN FALSE
  ELSE IF params["sortBy"].t # "undefined"
          /\ ~Includes(SortKeys, params["sortBy"]) THEN FALSE
  ELSE TRUE

\* the guard without its last test: any well-typed bag passes
HasFilterSkipped(params) == TRUE

\* "At least one search parameter should be provided"
HasFilter(params) ==
  \/ Truthy(params["q"])
  \/ Truthy(params["involvedMaker"])
  \/ Truthy(params["type"])
  \/ Truthy(params["material"])
  \/ Truthy(params["technique"])
  \/ Truthy(params["century"])
  \/ Truthy(params["color"])

isSearchArtworkArguments(args) ==
  IF ~args.defined THEN FALSE
  ELSE IF ~TypesOk(args.f) THEN FALSE
  ELSE HasFilter(args.f)

isOpenImageArguments(args) ==
  IF ~args.defined THEN FALSE
  ELSE LET imageUrl == args.f["imageUrl"] IN
    TypeOf(imageUrl) = "string" /\ StartsWith(imageUrl.s, "http")

\* The guard ToolHandler imports from utils/typeGuards for
\* get_user_set_details, by its documented contract: the identifier is a
\* string, culture one of the two locales, page a number that is not
\* negative and pageSize a number from 1 to 100.
isGetUserSetDetailsArguments(args) ==
  IF ~args.defined THEN FALSE
  ELSE LET params == args.f IN
    /\ TypeOf(params["setId"]) = "string"
    /\ params["culture"].t = "undefined" \/ Includes(Cultures, params["culture"])
    /\ \/ params["page"].t = "undefined"
       \/ /\ TypeOf(params["page"]) = "number"
          /\ ~IsNaN(params["page"])
          /\ params["page"].n >= 0
    /\ \/ params["pageSize"].t = "undefined"
       \/ /\ TypeOf(params["pageSize"]) = "number"
          /\ ~IsNaN(params["pageSize"])
          /\ params["pageSize"].n >= 1
          /\ params["pageSize"].n <= 100

(***************************************************************************)
(* Strings the client builds.                                              *)
(***************************************************************************)
\* the characters encodeURIComponent leaves alone are letters, digits and
\* - _ . ! ~ * ' ( ); of the others the model's strings hold these
EncodeChar(c) ==
  CASE c = " " -> "%20"
    [] c = "/" -> "%2F"
    [] c = "#" -> "%23"
    [] c = ":" -> "%3A"
    [] c = "+" -> "%2B"
    [] OTHER   -> c

RECURSIVE encodeURIComponent(_)
encodeURIComponent(s) ==
  IF Len(s) = 0 THEN ""
  ELSE EncodeChar(SubSeq(s, 1, 1)) \o encodeURIComponent(SubSeq(s, 2, Len(s)))

\* s.replace('#', ''): the first # only
RECURSIVE RemoveFirstHash(_)
RemoveFirstHash(s) ==
  IF Len(s) = 0 THEN ""
  ELSE IF SubSeq(s, 1, 1) = "#" THEN SubSeq(s, 2, Len(s))
  ELSE SubSeq(s, 1, 1) \o RemoveFirstHash(SubSeq(s, 2, Len(s)))

(***************************************************************************)
(* RijksmuseumApiClient, up to the outbound call.  Each operator gives the *)
(* error the method throws before any call (NoError if none) and the call  *)
(* it issues otherwise: the path under BASE_URL and the query parameters.  *)
(***************************************************************************)
ParamNames == {"p", "ps", "q", "involvedMaker", "type", "material",
               "technique", "f.dating.period", "f.normalized32Colors.hex",
               "imgonly", "toppieces", "s", "page", "pageSize"}

NoParams == [k \in ParamNames |-> Undefined]

Call(op, path, params) == [op |-> op, path |-> path, params |-> params]

NoCall == Call("", "", NoParams)

Before(error, call) == [error |-> error, call |-> call]

COLLECTION == "collection"

\* if (params.x) apiParams[k] = encodeURIComponent(params.x)
EncodedIfTruthy(v) == IF Truthy(v) THEN Str(encodeURIComponent(JsString(v))) ELSE Undefined

IfTruthy(v) == IF Truthy(v) THEN v ELSE Undefined

\* the ceiling test written with >= : the product 10000 itself is refused
ExceedsCeilingAtCeiling(page, pageSize) ==
  LET product == Times(page, pageSize)
  IN  ~IsNaN(product) /\ product.n >= 10000

\* page * pageSize > 10000
ExceedsCeiling(page, pageSize) == GreaterThan(Times(page, pageSize), 10000)

\* pageSize < 1 || pageSize > 100
OutOfRange(pageSize) == LessThan(pageSize, 1) \/ GreaterThan(pageSize, 100)

searchArtworks(params) ==
  LET p  == Nullish(params["p"], Num(0))
      ps == Nullish(params["ps"], Num(10))
      culture == Nullish(params["culture"], Str("en"))
      apiParams ==
        [k \in ParamNames |->
          CASE k = "p"  -> p
            [] k = "ps" -> ps
            [] k = "q"  -> IfTruthy(params["q"])
            [] k = "involvedMaker" -> EncodedIfTruthy(params["involvedMaker"])
            [] k = "type"      -> EncodedIfTruthy(params["type"])
            [] k = "material"  -> EncodedIfTruthy(params["material"])
            [] k = "technique" -> EncodedIfTruthy(params["technique"])
            [] k = "f.dating.period" -> IfTruthy(params["century"])
            [] k = "f.normalized32Colors.hex" ->
                 IF Truthy(params["color"])
                 THEN Str(RemoveFirstHash(params["color"].s))
                 ELSE Undefined
            [] k = "imgonly"   -> params["imgonly"]
            [] k = "toppieces" -> params["toppieces"]
            [] k = "s"         -> IfTruthy(params["sortBy"])
            [] OTHER           -> Undefined]
  IN  IF ExceedsCeiling(p, ps)
      THEN Before(Error("Page * pageSize cannot exceed 10,000"), NoCall)
      ELSE Before(NoError,
                  Call("searchArtworks",
                       JsString(culture) \o "/" \o COLLECTION, apiParams))

getArtworkDetails(objectNumber, cultureArg) ==
  LET culture == Default(cultureArg, Str("en")) IN
  IF ~Truthy(objectNumber)
  THEN Before(Error("Object number is required"), NoCall)
  ELSE Before(NoError,
              Call("getArtworkDetails",
                   JsString(culture) \o "/" \o COLLECTION \o "/"
                     \o encodeURIComponent(JsString(objectNumber)),
                   NoParams))

getArtworkImageTiles(objectNumber, cultureArg) ==
  LET culture == Default(cultureArg, Str("en")) IN
  IF ~Truthy(objectNumber)
  THEN Before(Error("Object number is required"), NoCall)
  ELSE Before(NoError,
              Call("getArtworkImageTiles",
                   JsString(culture) \o "/" \o COLLECTION \o "/"
                     \o encodeURIComponent(JsString(objectNumber)) \o "/tiles",
                   NoParams))

PageParams(page, pageSize) ==
  [k \in ParamNames |->
    CASE k = "page" -> page [] k = "pageSize" -> pageSize [] OTHER -> Undefined]

getUserSets(pageArg, pageSizeArg, cultureArg) ==
  LET page     == Default(pageArg, Num(0))
      pageSize == Default(pageSizeArg, Num(10))
      culture  == Default(cultureArg, Str("en")) IN
  IF ExceedsCeiling(page, pageSize)
  THEN Before(Error("Page * pageSize cannot exceed 10,000"), NoCall)
  ELSE IF OutOfRange(pageSize)
  THEN Before(Error("Page size must be between 1 and 100"), NoCall)
  ELSE Before(NoError,
              Call("getUserSets", JsString(culture) \o "/usersets",
                   PageParams(page, pageSize)))

getUserSetDetails(setId, cultureArg, pageArg, pageSizeArg) ==
  LET culture  == Default(cultureArg, Str("en"))
      page     == Default(pageArg, Num(0))
      pageSize == Default(pageSizeArg, Num(25)) IN
  IF ~Truthy(setId)
  THEN Before(Error("Set ID is required"), NoCall)
  ELSE IF ExceedsCeiling(page, pageSize)
  THEN Before(Error("Page * pageSize cannot exceed 10,000"), NoCall)
  ELSE IF OutOfRange(pageSize)
  THEN Before(Error("Page size must be between 1 and 100"), NoCall)
  ELSE Before(NoError,
              Call("getUserSetDetails",
                   JsString(culture) \o "/usersets/"
                     \o encodeURIComponent(JsString(setId)),
                   PageParams(page, pageSize)))

getArtistTimeline(artist, maxWorksArg) ==
  LET maxWorks == Default(maxWorksArg, Num(10)) IN
  IF ~Truthy(artist)
  THEN Before(Error("Artist name is required"), NoCall)
  ELSE Before(NoError,
              Call("getArtistTimeline", COLLECTION,
                   [k \in ParamNames |->
                     CASE k = "involvedMaker" ->
                            Str(encodeURIComponent(JsString(artist)))
                       [] k = "ps"      -> maxWorks
                       [] k = "s"       -> Str("chronologic")
                       [] k = "imgonly" -> Bool(TRUE)
                       [] OTHER         -> Undefined]))

(***************************************************************************)
(* Upstream responses.  status is "ok" for a 2xx response, "http" for a    *)
(* response with another status, "none" when no response was received and  *)
(* "setup" when the request could not be set up.  A key of the payload is  *)
(* absent, an array (with its items) or some other truthy value.           *)
(***************************************************************************)
Absent     == [k |-> "absent", items |-> <<>>]
Array(s)   == [k |-> "array",  items |-> s]
NotAnArray == [k |-> "other",  items |-> <<>>]

Ok(data) == [status |-> "ok", code |-> 200, statusText |-> "OK", data |-> data]

HttpError(code, statusText) ==
  [status |-> "http", code |-> code, statusText |-> statusText, data |-> Absent]

NoResponseReceived ==
  [status |-> "none", code |-> 0, statusText |-> "", data |-> Absent]

SetupFailure(msg) ==
  [status |-> "setup", code |-> 0, statusText |-> msg, data |-> Absent]

NotYet == [status |-> "", code |-> 0, statusText |-> "", data |-> Absent]

\* an interceptor that reports the status text without the status code
ResponseInterceptorWithoutStatus(resp) ==
  IF resp.status = "ok"
  THEN NoError
  ELSE Error("Rijksmuseum API error: " \o resp.statusText)

\* the response interceptor of the constructor: the error it throws
ResponseInterceptor(resp) ==
  CASE resp.status = "http" ->
         Error("Rijksmuseum API error: " \o ToString(resp.code) \o " - "
               \o resp.statusText)
    [] resp.status = "none" ->
         Error("No response received from Rijksmuseum API")
    [] resp.status = "setup" ->
         Error("Error making request to Rijksmuseum API: " \o resp.statusText)
    [] OTHER -> NoError

After(error, value) == [error |-> error, value |-> value]

Nothing == [k |-> "nothing"]

\* longTitle.match(/\d{4}/)?.[0] || "Unknown"
RECURSIVE FirstFourDigitsFrom(_, _)
FirstFourDigitsFrom(s, i) ==
  IF i + 3 > Len(s) THEN ""
  ELSE IF AllDigits(SubSeq(s, i, i + 3)) THEN SubSeq(s, i, i + 3)
  ELSE FirstFourDigitsFrom(s, i + 1)

\* the year read from the end of the title
YearOfTail(longTitle) ==
  LET n == Len(longTitle)
  IN  IF n >= 4 /\ AllDigits(SubSeq(longTitle, n - 3, n))
      THEN SubSeq(longTitle, n - 3, n)
      ELSE "Unknown"

YearOf(longTitle) ==
  LET m == FirstFourDigitsFrom(longTitle, 1)
  IN  IF m = "" THEN "Unknown" ELSE m

\* artwork.webImage ? artwork.webImage.url : null
ImageOf(artwork) == IF artwork.hasWebImage THEN Str(artwork.webImageUrl) ELSE Null

TimelineArtwork(artwork) ==
  [year        |-> YearOf(artwork.longTitle),
   title       |-> artwork.title,
   objectNumber |-> artwork.objectNumber,
   description |-> artwork.longTitle,
   image       |-> ImageOf(artwork)]

(***************************************************************************)
(* RijksmuseumApiClient, after the outbound call: the error the method     *)
(* throws on the response (NoError if none) and the value it returns.      *)
(***************************************************************************)
searchArtworksReturn(resp) ==
  IF ResponseInterceptor(resp) # NoError
  THEN After(ResponseInterceptor(resp), Nothing)
  ELSE IF resp.data.artObjects.k = "absent"
  THEN After(Error("Invalid response from Rijksmuseum API: missing artObjects"),
             Nothing)
  ELSE After(NoError, resp.data.artObjects.items)

getArtworkDetailsReturn(resp) ==
  IF ResponseInterceptor(resp) # NoError
  THEN After(ResponseInterceptor(resp), Nothing)
  ELSE IF resp.data.artObject.k = "absent"
  THEN After(Error("Invalid response from Rijksmuseum API: missing artObject"),
             Nothing)
  ELSE After(NoError, resp.data)

\* !level.name || typeof level.width !== 'number' || ...
InvalidLevel(level) ==
  \/ ~Truthy(level.name)
  \/ TypeOf(level.width) # "number"
  \/ TypeOf(level.height) # "number"
  \/ level.tiles.k # "array"

getArtworkImageTilesReturn(resp) ==
  IF ResponseInterceptor(resp) # NoError
  THEN After(ResponseInterceptor(resp), Nothing)
  ELSE IF resp.data.levels.k # "array"
  THEN After(Error("Invalid response from Rijksmuseum API: missing or invalid image tiles data"),
             Nothing)
  ELSE LET levels == resp.data.levels.items
           bad == {i \in 1..Len(levels) : InvalidLevel(levels[i])}
       IN  IF bad # {}
           THEN After(Error("Invalid level data at index "
                            \o ToString((CHOOSE i \in bad : \A j \in bad : i <= j) - 1)),
                      Nothing)
           ELSE After(NoError, resp.data)

getUserSetsReturn(resp) ==
  IF ResponseInterceptor(resp) # NoError
  THEN After(ResponseInterceptor(resp), Nothing)
  ELSE IF resp.data.userSets.k # "array"
  THEN After(Error("Invalid response from Rijksmuseum API: missing or invalid userSets data"),
             Nothing)
  ELSE After(NoError, resp.data)

getUserSetDetailsReturn(resp) ==
  IF ResponseInterceptor(resp) # NoError
  THEN After(ResponseInterceptor(resp), Nothing)
  ELSE IF ~resp.data.hasUserSet
  THEN After(Error("Invalid response from Rijksmuseum API: missing user set data"),
             Nothing)
  ELSE IF resp.data.userSet.setItems.k = "other"
  THEN After(Error("Invalid response from Rijksmuseum API: invalid setItems format"),
             Nothing)
  ELSE After(NoError, resp.data)

\* the works sorted by year, those of unknown year last, as the server did
\* before the client was split from it
SortedByYear(works) ==
  LET n == Len(works)
      Key(w) == IF w.year = "Unknown" THEN 10000 ELSE DecimalValue(w.year)
      p == CHOOSE p \in [1..n -> 1..n] :
             /\ \A i, j \in 1..n : i # j => p[i] # p[j]
             /\ \A i, j \in 1..n : i < j =>
                  \/ Key(works[p[i]]) < Key(works[p[j]])
                  \/ Key(works[p[i]]) = Key(works[p[j]]) /\ p[i] < p[j]
  IN  [i \in 1..n |-> works[p[i]]]

getArtistTimelineReturnSorted(resp) ==
  IF ResponseInterceptor(resp) # NoError
  THEN After(ResponseInterceptor(resp), Nothing)
  ELSE IF resp.data.artObjects.k = "absent"
  THEN After(Error("Invalid response from Rijksmuseum API: missing artObjects"),
             Nothing)
  ELSE LET artObjects == resp.data.artObjects.items
       IN  After(NoError,
                 SortedByYear([i \in DOMAIN artObjects |->
                                TimelineArtwork(artObjects[i])]))

getArtistTimelineReturn(resp) ==
  IF ResponseInterceptor(resp) # NoError
  THEN After(ResponseInterceptor(resp), Nothing)
  ELSE IF resp.data.artObjects.k = "absent"
  THEN After(Error("Invalid response from Rijksmuseum API: missing artObjects"),
             Nothing)
  ELSE LET artObjects == resp.data.artObjects.items
       IN  After(NoError, [i \in DOMAIN artObjects |-> TimelineArtwork(artObjects[i])])

(***************************************************************************)
(* The state of the server process and of the tool call it is handling.    *)
(***************************************************************************)
VARIABLES
  pc,            \* "starting", "fatal", "idle", "awaitUpstream",
                 \* "awaitBrowser" or "done"
  request,       \* the CallToolRequest: its name and its arguments
  netCalls,      \* the outbound calls axiosInstance.get has issued
  browserCalls,  \* the URLs SystemIntegration.openInBrowser was given
  response,      \* what the upstream answered, NotYet before it did
  launch,        \* "none", "ok" or "failed": how the browser launch ended
  launchError,   \* the message the launch failed with, "" if it did not
  outcome,       \* what handleToolRequest returned or threw
  env,           \* process.env.RIJKSMUSEUM_API_KEY
  instance,      \* Config.instance
  envReads,      \* how often the Config constructor has read env
  earlier,       \* history: a tool call served before, and how it ended
  suspended      \* the handler invocations parked at their await while
                 \* the event loop runs another one

vars == <<pc, request, netCalls, browserCalls, response, launch, launchError,
          outcome, env, instance, envReads, earlier, suspended>>

\* what lives as long as the process
process == <<env, instance, envReads>>

NoRequest == [name |-> "", arguments |-> NoArguments]

NoOutcome ==
  [kind |-> "none", content |-> <<>>, isError |-> FALSE, error |-> NoError]

NoInstance == [id |-> 0, apiKey |-> ""]

NoEarlier ==
  [request |-> NoRequest, response |-> NotYet, launch |-> "none",
   launchError |-> "", outcome |-> NoOutcome]

\* a result that tells whether a tool call was served before
ReturnedStamped(text) ==
  [kind |-> "result",
   content |-> <<[type |-> "text",
                  text |-> [text |-> text, repeated |-> earlier # NoEarlier]]>>,
   isError |-> FALSE, error |-> NoError]

\* return { content: [{ type: "text", text }] }
Returned(text) ==
  [kind |-> "result", content |-> <<[type |-> "text", text |-> text]>>,
   isError |-> FALSE, error |-> NoError]

\* return { content: [{ type: "text", text }], isError: true }
ReturnedError(text) ==
  [kind |-> "result", content |-> <<[type |-> "text", text |-> text]>>,
   isError |-> TRUE, error |-> NoError]

Thrown(error) ==
  [kind |-> "error", content |-> <<>>, isError |-> FALSE, error |-> error]

\* a catch block whose handleError logs the error and returns, so that
\* handleToolRequest returns undefined
CaughtAndSwallowed(error) ==
  [kind |-> "undefined", content |-> <<>>, isError |-> FALSE,
   error |-> NoError]

\* the catch block answering with a flagged result, as the server did
\* before ToolHandler was split from it
CaughtAsResult(error) == ReturnedError(handleError(error).message)

\* the catch block of handleToolRequest: ErrorHandler.handleError throws,
\* so the method never returns from it
Caught(error) == Thrown(handleError(error))

\* the launch failure left to the catch block of handleToolRequest
LaunchFailedThrows(message) == Caught(Error(message))

\* the catch block of handleOpenImageInBrowser
LaunchFailed(message) ==
  ReturnedError("Failed to open image in browser: " \o message)

LaunchSucceeded(imageUrl) ==
  Returned("Successfully opened image in browser: " \o imageUrl)

\* the opener run a second time
openInBrowserTwice(calls, url) == Append(Append(calls, url), url)

\* SystemIntegration.openInBrowser: one exec of the platform's opener
openInBrowser(calls, url) == Append(calls, url)

\* a get that is sent again
getTwice(calls, call) == Append(Append(calls, call), call)

\* axiosInstance.get
get(calls, call) == Append(calls, call)

\* a constructor that reads the environment on every call
getInstanceAfresh(inst, reads, key) ==
  IF ~Truthy(key)
  THEN [error |-> Error("RIJKSMUSEUM_API_KEY environment variable is required"),
        instance |-> inst, reads |-> reads + 1]
  ELSE [error |-> NoError,
        instance |-> [id |-> reads + 1, apiKey |-> key.s],
        reads |-> reads + 1]

\* Config.getInstance: the instance is constructed on the first call, from
\* the environment variable, and returned as it is on every later call
getInstance(inst, reads, key) ==
  IF inst # NoInstance
  THEN [error |-> NoError, instance |-> inst, reads |-> reads]
  ELSE IF ~Truthy(key)
  THEN [error |-> Error("RIJKSMUSEUM_API_KEY environment variable is required"),
        instance |-> NoInstance, reads |-> reads + 1]
  ELSE [error |-> NoError,
        instance |-> [id |-> reads + 1, apiKey |-> key.s],
        reads |-> reads + 1]

ApiKey == "rijks-key"

\* the state once the server is constructed and connected
Init ==
  /\ pc = "idle"
  /\ request = NoRequest
  /\ netCalls = <<>>
  /\ browserCalls = <<>>
  /\ response = NotYet
  /\ launch = "none"
  /\ launchError = ""
  /\ outcome = NoOutcome
  /\ env = Str(ApiKey)
  /\ instance = getInstance(NoInstance, 0, env).instance
  /\ envReads = getInstance(NoInstance, 0, env).reads
  /\ earlier = NoEarlier
  /\ suspended = <<>>

\* the handler ends by throwing error
Fail(error) ==
  /\ pc' = "done"
  /\ outcome' = Caught(error)

\* the handler ends by returning result
Finish(result) ==
  /\ pc' = "done"
  /\ outcome' = result

\* the handler issues call and awaits the response
Await(call) ==
  /\ pc' = "awaitUpstream"
  /\ netCalls' = get(netCalls, call)
  /\ UNCHANGED outcome

\* a client method that issues its call before it checks its arguments
InvokeUnchecked(before) ==
  IF before.error # NoError
  THEN Fail(before.error) /\ netCalls' = get(netCalls, before.call)
  ELSE Await(before.call)

\* a client method that throws before its call, or issues it
Invoke(before) ==
  IF before.error # NoError
  THEN Fail(before.error) /\ UNCHANGED netCalls
  ELSE Await(before.call)

Receive(name, args) ==
  /\ pc = "idle"
  /\ request' = [name |-> name, arguments |-> args]
  /\ UNCHANGED <<response, launch, launchError, process, earlier, suspended>>

\* a handler that reaches the upstream client leaves the browser alone
NoLaunch == UNCHANGED browserCalls

(***************************************************************************)
(* ToolHandler: each handler up to its await.                              *)
(***************************************************************************)
HandleSearchArtwork(args) ==
  /\ Receive("search_artwork", args)
  /\ NoLaunch
  /\ IF ~isSearchArtworkArguments(args)
     THEN Fail(Error("Invalid arguments for search_artwork"))
          /\ UNCHANGED netCalls
     ELSE Invoke(searchArtworks(args.f))

HandleGetArtworkDetails(args) ==
  /\ Receive("get_artwork_details", args)
  /\ NoLaunch
  /\ IF ~args.defined
     THEN Fail(DestructureError("objectNumber")) /\ UNCHANGED netCalls
     ELSE LET objectNumber == args.f["objectNumber"]
              culture == Default(args.f["culture"], Str("en"))
          IN  IF validateRequiredParam(objectNumber, "objectNumber") # NoError
              THEN Fail(validateRequiredParam(objectNumber, "objectNumber"))
                   /\ UNCHANGED netCalls
              ELSE Invoke(getArtworkDetails(objectNumber, culture))

HandleGetArtworkImage(args) ==
  /\ Receive("get_artwork_image", args)
  /\ NoLaunch
  /\ IF ~args.defined
     THEN Fail(DestructureError("objectNumber")) /\ UNCHANGED netCalls
     ELSE LET objectNumber == args.f["objectNumber"]
              culture == Default(args.f["culture"], Str("en"))
          IN  IF validateRequiredParam(objectNumber, "objectNumber") # NoError
              THEN Fail(validateRequiredParam(objectNumber, "objectNumber"))
                   /\ UNCHANGED netCalls
              ELSE Invoke(getArtworkImageTiles(objectNumber, culture))

HandleGetUserSets(args) ==
  /\ Receive("get_user_sets", args)
  /\ NoLaunch
  /\ IF ~args.defined
     THEN Fail(DestructureError("page")) /\ UNCHANGED netCalls
     ELSE LET page     == Default(args.f["page"], Num(0))
              pageSize == Default(args.f["pageSize"], Num(10))
              culture  == Default(args.f["culture"], Str("en"))
          IN  Invoke(getUserSets(page, pageSize, culture))

HandleGetUserSetDetails(args) ==
  /\ Receive("get_user_set_details", args)
  /\ NoLaunch
  /\ IF ~isGetUserSetDetailsArguments(args)
     THEN Fail(Error("Invalid arguments for get_user_set_details"))
          /\ UNCHANGED netCalls
     ELSE LET setId    == args.f["setId"]
              culture  == Default(args.f["culture"], Str("en"))
              page     == Default(args.f["page"], Num(0))
              pageSize == Default(args.f["pageSize"], Num(25))
          IN  IF validateRequiredParam(setId, "setId") # NoError
              THEN Fail(validateRequiredParam(setId, "setId"))
                   /\ UNCHANGED netCalls
              ELSE Invoke(getUserSetDetails(setId, culture, page, pageSize))

HandleOpenImageInBrowser(args) ==
  /\ Receive("open_image_in_browser", args)
  /\ UNCHANGED netCalls
  /\ IF ~isOpenImageArguments(args)
     THEN Fail(Error("Invalid arguments for open_image_in_browser"))
          /\ UNCHANGED browserCalls
     ELSE /\ pc' = "awaitBrowser"
          /\ browserCalls' = openInBrowser(browserCalls, args.f["imageUrl"].s)
          /\ UNCHANGED outcome

HandleGetArtistTimeline(args) ==
  /\ Receive("get_artist_timeline", args)
  /\ NoLaunch
  /\ IF ~args.defined
     THEN Fail(DestructureError("artist")) /\ UNCHANGED netCalls
     ELSE LET artist   == args.f["artist"]
              maxWorks == Default(args.f["maxWorks"], Num(10))
          IN  IF validateRequiredParam(artist, "artist") # NoError
              THEN Fail(validateRequiredParam(artist, "artist"))
                   /\ UNCHANGED netCalls
              ELSE Invoke(getArtistTimeline(artist, maxWorks))

\* a switch whose default branch falls into the search handler
HandleUnknownToolAsSearch(name, args) ==
  /\ Receive(name, args)
  /\ NoLaunch
  /\ IF ~isSearchArtworkArguments(args)
     THEN Fail(Error("Invalid arguments for search_artwork"))
          /\ UNCHANGED netCalls
     ELSE Invoke(searchArtworks(args.f))

\* the default branch of the switch
HandleUnknownTool(name, args) ==
  /\ Receive(name, args)
  /\ NoLaunch
  /\ Fail(Error("Unknown tool: " \o name))
  /\ UNCHANGED netCalls

(***************************************************************************)
(* ToolHandler: the response shaping of each handler.                      *)
(***************************************************************************)
FormatSearch(artworks) ==
  [count |-> Len(artworks), artworks |-> artworks]

ZoomLevel(level) ==
  [name       |-> level.name,
   resolution |-> JsString(level.width) \o "x" \o JsString(level.height),
   tilesCount |-> Len(level.tiles.items)]

FormatImage(imageData) ==
  [totalLevels |-> Len(imageData.levels.items),
   zoomLevels  |-> [i \in DOMAIN imageData.levels.items |->
                     ZoomLevel(imageData.levels.items[i])],
   details     |-> imageData]

SetSummary(set) ==
  [id          |-> set.id,
   name        |-> set.name,
   description |-> set.description,
   itemCount   |-> set.count,
   creator     |-> set.user.name,
   createdOn   |-> set.createdOn,
   updatedOn   |-> set.updatedOn,
   links       |-> set.links]

\* a formatter that reports the upstream's total as the number fetched
FormatUserSetsCountingTotal(userSetsResponse, page, pageSize) ==
  [totalSets   |-> userSetsResponse.count,
   currentPage |-> page,
   pageSize    |-> pageSize,
   fetchedSets |-> userSetsResponse.count,
   queryTimeMs |-> userSetsResponse.elapsedMilliseconds,
   sets        |-> [i \in DOMAIN userSetsResponse.userSets.items |->
                     SetSummary(userSetsResponse.userSets.items[i])]]

FormatUserSets(userSetsResponse, page, pageSize) ==
  [totalSets   |-> userSetsResponse.count,
   currentPage |-> page,
   pageSize    |-> pageSize,
   fetchedSets |-> Len(userSetsResponse.userSets.items),
   queryTimeMs |-> userSetsResponse.elapsedMilliseconds,
   sets        |-> [i \in DOMAIN userSetsResponse.userSets.items |->
                     SetSummary(userSetsResponse.userSets.items[i])]]

ItemSummary(item) ==
  [objectNumber |-> item.objectNumber,
   links        |-> item.links,
   imageInfo    |->
     IF item.hasImage
     THEN [k |-> "object",
           dimensions |-> JsString(item.image.width) \o "x"
                          \o JsString(item.image.height),
           url |-> item.image.cdnUrl]
     ELSE [k |-> "null", dimensions |-> "", url |-> ""]]

\* a formatter that leaves out the items that have no image
HasImage(item) == item.hasImage

FormatUserSetDetailsWithImagesOnly(setDetails, page, pageSize) ==
  LET kept == SelectSeq(setDetails.userSet.setItems.items, HasImage) IN
  [setInfo |->
     [id          |-> setDetails.userSet.id,
      name        |-> setDetails.userSet.name,
      description |-> setDetails.userSet.description,
      type        |-> setDetails.userSet.type,
      totalItems  |-> setDetails.userSet.count,
      creator     |-> setDetails.userSet.user.name,
      createdOn   |-> setDetails.userSet.createdOn,
      updatedOn   |-> setDetails.userSet.updatedOn],
   items |-> [i \in DOMAIN kept |-> ItemSummary(kept[i])],
   pagination |->
     [currentPage  |-> page,
      pageSize     |-> pageSize,
      fetchedItems |-> Len(setDetails.userSet.setItems.items)],
   queryTimeMs |-> setDetails.elapsedMilliseconds]

FormatUserSetDetails(setDetails, page, pageSize) ==
  [setInfo |->
     [id          |-> setDetails.userSet.id,
      name        |-> setDetails.userSet.name,
      description |-> setDetails.userSet.description,
      type        |-> setDetails.userSet.type,
      totalItems  |-> setDetails.userSet.count,
      creator     |-> setDetails.userSet.user.name,
      createdOn   |-> setDetails.userSet.createdOn,
      updatedOn   |-> setDetails.userSet.updatedOn],
   items |-> [i \in DOMAIN setDetails.userSet.setItems.items |->
               ItemSummary(setDetails.userSet.setItems.items[i])],
   pagination |->
     [currentPage  |-> page,
      pageSize     |-> pageSize,
      fetchedItems |-> Len(setDetails.userSet.setItems.items)],
   queryTimeMs |-> setDetails.elapsedMilliseconds]

FormatTimeline(artist, timelineArtworks) ==
  [artist |-> artist, works |-> timelineArtworks]

(***************************************************************************)
(* ToolHandler: each handler after its await.                              *)
(***************************************************************************)
Resume(name, resp) ==
  /\ pc = "awaitUpstream"
  /\ request.name = name
  /\ response' = resp
  /\ UNCHANGED <<request, netCalls, browserCalls, launch, launchError,
                 process, earlier, suspended>>

\* a client method that throws on the response, or returns to the handler,
\* which formats what it got
Complete(after, formatted) ==
  IF after.error # NoError
  THEN Fail(after.error)
  ELSE Finish(Returned(formatted))

ResumeSearchArtwork(resp) ==
  /\ Resume("search_artwork", resp)
  /\ LET after == searchArtworksReturn(resp)
     IN  Complete(after, FormatSearch(after.value))

ResumeGetArtworkDetails(resp) ==
  /\ Resume("get_artwork_details", resp)
  /\ LET after == getArtworkDetailsReturn(resp)
     IN  Complete(after, after.value)

ResumeGetArtworkImage(resp) ==
  /\ Resume("get_artwork_image", resp)
  /\ LET after == getArtworkImageTilesReturn(resp)
     IN  Complete(after, FormatImage(after.value))

ResumeGetUserSets(resp) ==
  /\ Resume("get_user_sets", resp)
  /\ LET page     == Default(request.arguments.f["page"], Num(0))
         pageSize == Default(request.arguments.f["pageSize"], Num(10))
         after    == getUserSetsReturn(resp)
     IN  Complete(after, FormatUserSets(after.value, page, pageSize))

\* setDetails.userSet.setItems.map(...) on a user set without setItems
\* throws a TypeError, which the client let through
ResumeGetUserSetDetails(resp) ==
  /\ Resume("get_user_set_details", resp)
  /\ LET page     == Default(request.arguments.f["page"], Num(0))
         pageSize == Default(request.arguments.f["pageSize"], Num(25))
         after    == getUserSetDetailsReturn(resp)
     IN  IF after.error = NoError /\ after.value.userSet.setItems.k = "absent"
         THEN Fail(TypeError("Cannot read properties of undefined (reading 'map')"))
         ELSE Complete(after, FormatUserSetDetails(after.value, page, pageSize))

ResumeGetArtistTimeline(resp) ==
  /\ Resume("get_artist_timeline", resp)
  /\ LET after == getArtistTimelineReturn(resp)
     IN  Complete(after, FormatTimeline(request.arguments.f["artist"], after.value))

\* the exec of openInBrowser ends: with exit status 0, or with an error
BrowserExits(ok, message) ==
  /\ pc = "awaitBrowser"
  /\ launch' = IF ok THEN "ok" ELSE "failed"
  /\ launchError' = IF ok THEN "" ELSE message
  /\ Finish(IF ok
            THEN LaunchSucceeded(request.arguments.f["imageUrl"].s)
            ELSE LaunchFailed(message))
  /\ UNCHANGED <<request, netCalls, browserCalls, response, process, earlier,
                 suspended>>

\* the transport hands the next tool call to a handler that holds no state
\* of the last one
Reset ==
  /\ pc = "done"
  /\ pc' = "idle"
  /\ request' = NoRequest
  /\ netCalls' = <<>>
  /\ browserCalls' = <<>>
  /\ response' = NotYet
  /\ launch' = "none"
  /\ launchError' = ""
  /\ outcome' = NoOutcome
  /\ UNCHANGED <<process, suspended>>

NextRequest == Reset /\ UNCHANGED earlier

\* the tool call just served, and what its collaborators answered
Served ==
  [request |-> request, response |-> response, launch |-> launch,
   launchError |-> launchError, outcome |-> outcome]

\* the same hand-over, with the call just served kept in the history
NextRequestRemembered == Reset /\ earlier' = Served

\* the most tool calls the transport has handed over and not yet seen end
MaxInFlight == 3

\* the locals of one invocation of handleToolRequest: its request, what it
\* has issued and got so far, and where it stands
Frame ==
  [pc |-> pc, request |-> request, netCalls |-> netCalls,
   browserCalls |-> browserCalls, response |-> response, launch |-> launch,
   launchError |-> launchError, outcome |-> outcome]

\* a handler that keeps the request in a field of the one ToolHandler, where
\* the invocation started last has overwritten it
RestoredWithLastRequest(frames, i) ==
  [frames[i] EXCEPT !.request = frames[Len(frames)].request]

\* the invocation that continues after its await finds its locals as it
\* left them: request is a parameter of handleToolRequest, and neither the
\* ToolHandler nor the client keeps anything of a call in a field
Restored(frames, i) == frames[i]

\* the handler stands at its await, and the event loop turns to the
\* transport, which may hand over another tool call
Park ==
  /\ pc \in {"awaitUpstream", "awaitBrowser"}
  /\ Len(suspended) < MaxInFlight - 1
  /\ suspended' = Append(suspended, Frame)
  /\ pc' = "idle"
  /\ request' = NoRequest
  /\ netCalls' = <<>>
  /\ browserCalls' = <<>>
  /\ response' = NotYet
  /\ launch' = "none"
  /\ launchError' = ""
  /\ outcome' = NoOutcome
  /\ UNCHANGED <<process, earlier>>

\* the promise a parked handler awaits is about to settle: the event loop
\* continues that invocation, in whatever order the promises settle
Unpark(i) ==
  /\ pc = "idle"
  /\ i \in DOMAIN suspended
  /\ LET frame == Restored(suspended, i)
     IN  /\ pc' = frame.pc
         /\ request' = frame.request
         /\ netCalls' = frame.netCalls
         /\ browserCalls' = frame.browserCalls
         /\ response' = frame.response
         /\ launch' = frame.launch
         /\ launchError' = frame.launchError
         /\ outcome' = frame.outcome
  /\ suspended' = [j \in 1..(Len(suspended) - 1) |->
                     IF j < i THEN suspended[j] ELSE suspended[j + 1]]
  /\ UNCHANGED <<process, earlier>>

\* new RijksmuseumServer() at the top of index.ts: the constructor gets the
\* Config and builds the client and the handlers; an error it throws is
\* uncaught and ends the process before the transport is connected
Startup ==
  /\ pc = "starting"
  /\ LET config == getInstance(instance, envReads, env)
     IN  /\ instance' = config.instance
         /\ envReads' = config.reads
         /\ pc' = IF config.error # NoError \/ config.instance.apiKey = ""
                  THEN "fatal"
                  ELSE "idle"
  /\ UNCHANGED <<request, netCalls, browserCalls, response, launch,
                 launchError, outcome, env, earlier, suspended>>

\* Config.getInstance() called again while the server runs
GetInstanceAgain ==
  /\ pc \notin {"starting", "fatal"}
  /\ LET config == getInstance(instance, envReads, env)
     IN  /\ instance' = config.instance
         /\ envReads' = config.reads
  /\ UNCHANGED <<pc, request, netCalls, browserCalls, response, launch,
                 launchError, outcome, env, earlier, suspended>>

(***************************************************************************)
(* The requests and the upstream answers the model explores.               *)
(***************************************************************************)
\* the values a field of an argument bag takes when the bag carries it
Sample(field) ==
  CASE field = "q"             -> {Str("night watch"), Str(""), Num(7)}
    [] field = "involvedMaker" -> {Str("Rembrandt van Rijn"), Null}
    [] field = "type"          -> {Str("painting"), Bool(TRUE)}
    [] field = "material"      -> {Str("oil paint"), Num(1)}
    [] field = "technique"     -> {Str("etching"), Obj}
    [] field = "century"       -> {Num(17), Num(0), Num(-1), Str("17"),
                                   Num(22), Num(-2)}
    [] field = "color"         -> {Str("#FF0000"), Num(0)}
    [] field = "imgonly"       -> {Bool(TRUE), Bool(FALSE), Str("true")}
    [] field = "toppieces"     -> {Bool(TRUE), Bool(FALSE), Num(1)}
    [] field = "sortBy"        -> {Str(k) : k \in SortKeys \cup {"newest"}}
    [] field = "p"             -> {Num(0), Num(100), Num(101), Num(1000),
                                   Num(1001), Str("1")}
    [] field = "ps"            -> {Num(100), Num(1000), Str("10")}
    [] field = "culture"       -> {Str("nl"), Str("en"), Str("fr")}
    [] field = "objectNumber"  -> {Str("SK-C-5"), Str(""), Null, Num(5)}
    [] field = "setId"         -> {Str("123-my set"), Str(""), Null, Num(5)}
    [] field = "page"          -> {Num(0), Num(10), Num(100), Num(101),
                                   Num(400), Num(401), Num(1000), Num(1001),
                                   Num(-1)}
    [] field = "pageSize"      -> {Num(10), Num(100), Num(1000), Num(101),
                                   Num(0)}
    [] field = "imageUrl"      -> {Str("http://x/y"), Str("https://x/y"),
                                   Str("httpfoo"), Str("not-a-url"),
                                   Str("ftp://x/y"), Str(""), Num(1), Null}
    [] field = "artist"        -> {Str("Rembrandt van Rijn"), Str(""), Null,
                                   Num(5)}
    [] OTHER                   -> {Num(5), Num(50), Num(51), Num(0)}

\* the bags that carry exactly the fields of S
RECURSIVE BagsOver(_)
BagsOver(S) ==
  IF S = {} THEN {EmptyBag}
  ELSE LET x == CHOOSE x \in S : TRUE
       IN  {[b EXCEPT ![x] = v] : b \in BagsOver(S \ {x}), v \in Sample(x)}

\* the sets of at most n fields an argument object carries
FieldSets(fields, n) == {T \in SUBSET fields : Cardinality(T) <= n}

\* request.params.arguments: absent, or an object that carries the fields
\* of S
ArgumentsOver(S) == {NoArguments} \cup {Arguments(b) : b \in BagsOver(S)}

SearchFieldSets     == FieldSets(SearchFields, MaxFields)
ObjectFieldSets     == SUBSET {"objectNumber", "culture"}
UserSetsFieldSets   == SUBSET {"page", "pageSize", "culture"}
SetDetailsFieldSets == SUBSET {"setId", "page", "pageSize"}
OpenImageFieldSets  == SUBSET {"imageUrl"}
TimelineFieldSets   == SUBSET {"artist", "maxWorks"}
UnknownTools        == {"get_artwork", "search_artworks", "Search_Artwork"}

\* the sequences over S of length at most n
SeqsUpTo(S, n) == UNION {[1..k -> S] : k \in 0..n}

ArtObjectSamples ==
  {[objectNumber |-> "SK-C-5", title |-> "The Night Watch",
    longTitle |-> "The Night Watch, Rembrandt van Rijn, 1642",
    hasWebImage |-> TRUE, webImageUrl |-> "https://lh3.example/SK-C-5"],
   [objectNumber |-> "RP-P-1", title |-> "Self-portrait",
    longTitle |-> "Self-portrait, Rembrandt van Rijn, c. 163",
    hasWebImage |-> FALSE, webImageUrl |-> ""],
   [objectNumber |-> "RP-P-2", title |-> "The Three Trees",
    longTitle |-> "Plate 12 of 10023: The Three Trees, Rembrandt van Rijn, 1643",
    hasWebImage |-> FALSE, webImageUrl |-> ""],
   [objectNumber |-> "SK-C-216", title |-> "The Jewish Bride",
    longTitle |-> "The Jewish Bride, Rembrandt van Rijn, c. 1665 - c. 1669",
    hasWebImage |-> TRUE, webImageUrl |-> "https://lh3.example/SK-C-216"]}

LevelSamples ==
  {[name |-> Str("z0"), width |-> Num(2000), height |-> Num(1000),
    tiles |-> Array(<<[x |-> 0, y |-> 0, url |-> "https://lh3.example/t0"]>>)],
   [name |-> Str("z1"), width |-> Str("1000"), height |-> Num(500),
    tiles |-> Array(<<>>)],
   [name |-> Str("z2"), width |-> Num(500), height |-> Num(250),
    tiles |-> Array(<<[x |-> 0, y |-> 0, url |-> "https://lh3.example/t1"],
                      [x |-> 1, y |-> 0, url |-> "https://lh3.example/t2"]>>)]}

UserSetSamples ==
  {[id |-> "123-my set", name |-> "my set", description |-> Null,
    count |-> 2, type |-> "Default",
    user |-> [name |-> "An"], createdOn |-> "2012-01-01",
    updatedOn |-> "2012-02-02", links |-> "https://example/123-my-set"]}

SetItemSamples ==
  {[objectNumber |-> "SK-C-5", links |-> "https://example/SK-C-5",
    hasImage |-> TRUE,
    image |-> [width |-> Num(2000), height |-> Num(1000),
               cdnUrl |-> "https://lh3.example/SK-C-5"]],
   [objectNumber |-> "RP-P-1", links |-> "https://example/RP-P-1",
    hasImage |-> FALSE,
    image |-> [width |-> Num(0), height |-> Num(0), cdnUrl |-> ""]]}

\* the most items an upstream payload lists
MaxItems == 1

Failures ==
  {HttpError(500, "Internal Server Error"), HttpError(404, "Not Found"),
   NoResponseReceived, SetupFailure("socket hang up")}

ArtObjectsResponses ==
  Failures \cup {Ok([artObjects |-> Absent])}
    \cup {Ok([artObjects |-> Array(l)]) : l \in SeqsUpTo(ArtObjectSamples, MaxItems)}

ArtObjectResponses ==
  Failures \cup {Ok([artObject |-> Absent]),
                 Ok([artObject |-> [k |-> "object", objectNumber |-> "SK-C-5",
                                    title |-> "The Night Watch"]])}

TilesResponses ==
  Failures \cup {Ok([levels |-> Absent]), Ok([levels |-> NotAnArray])}
    \cup {Ok([levels |-> Array(l)]) : l \in SeqsUpTo(LevelSamples, MaxItems)}

UserSetsResponses ==
  Failures
    \cup {Ok([count |-> 0, elapsedMilliseconds |-> 3, userSets |-> k]) :
            k \in {Absent, NotAnArray}}
    \cup {Ok([count |-> 7, elapsedMilliseconds |-> 3, userSets |-> Array(l)]) :
            l \in SeqsUpTo(UserSetSamples, MaxItems)}

UserSetOf(set, setItems) ==
  [id |-> set.id, name |-> set.name, description |-> set.description,
   type |-> set.type, count |-> set.count, user |-> set.user,
   createdOn |-> set.createdOn, updatedOn |-> set.updatedOn,
   setItems |-> setItems]

\* the most items the upstream lists for a user set
MaxSetItems == 2

SetDetailsResponses ==
  Failures
    \cup {Ok([elapsedMilliseconds |-> 3, hasUserSet |-> FALSE,
              userSet |-> UserSetOf(set, Absent)]) : set \in UserSetSamples}
    \cup {Ok([elapsedMilliseconds |-> 3, hasUserSet |-> TRUE,
              userSet |-> UserSetOf(set, k)]) :
            set \in UserSetSamples, k \in {Absent, NotAnArray}}
    \cup {Ok([elapsedMilliseconds |-> 3, hasUserSet |-> TRUE,
              userSet |-> UserSetOf(set, Array(l))]) :
            set \in UserSetSamples, l \in SeqsUpTo(SetItemSamples, MaxSetItems)}

\* the most art objects the upstream lists for a timeline
MaxWorks == 2

TimelineResponses ==
  Failures \cup {Ok([artObjects |-> Absent])}
    \cup {Ok([artObjects |-> Array(l)]) : l \in SeqsUpTo(ArtObjectSamples, MaxWorks)}

LaunchErrors == {"Command failed: xdg-open", "spawn xdg-open ENOENT"}

(***************************************************************************)
(* The specification.                                                      *)
(***************************************************************************)
Idle == pc = "idle"

\* a tool call arrives: the switch of handleToolRequest on its name
CallSearchArtwork ==
  Idle /\ \E S \in SearchFieldSets : \E args \in ArgumentsOver(S) :
            HandleSearchArtwork(args)

CallGetArtworkDetails ==
  Idle /\ \E S \in ObjectFieldSets : \E args \in ArgumentsOver(S) :
            HandleGetArtworkDetails(args)

CallGetArtworkImage ==
  Idle /\ \E S \in ObjectFieldSets : \E args \in ArgumentsOver(S) :
            HandleGetArtworkImage(args)

CallGetUserSets ==
  Idle /\ \E S \in UserSetsFieldSets : \E args \in ArgumentsOver(S) :
            HandleGetUserSets(args)

CallGetUserSetDetails ==
  Idle /\ \E S \in SetDetailsFieldSets : \E args \in ArgumentsOver(S) :
            HandleGetUserSetDetails(args)

CallOpenImageInBrowser ==
  Idle /\ \E S \in OpenImageFieldSets : \E args \in ArgumentsOver(S) :
            HandleOpenImageInBrowser(args)

CallGetArtistTimeline ==
  Idle /\ \E S \in TimelineFieldSets : \E args \in ArgumentsOver(S) :
            HandleGetArtistTimeline(args)

CallUnknownTool ==
  Idle /\ \E name \in UnknownTools : \E args \in ArgumentsOver({"imageUrl"}) :
            HandleUnknownTool(name, args)

UpstreamAnswers ==
  \/ \E resp \in ArtObjectsResponses : ResumeSearchArtwork(resp)
  \/ \E resp \in ArtObjectResponses : ResumeGetArtworkDetails(resp)
  \/ \E resp \in TilesResponses : ResumeGetArtworkImage(resp)
  \/ \E resp \in UserSetsResponses : ResumeGetUserSets(resp)
  \/ \E resp \in SetDetailsResponses : ResumeGetUserSetDetails(resp)
  \/ \E resp \in TimelineResponses : ResumeGetArtistTimeline(resp)

LaunchEnds ==
  \/ BrowserExits(TRUE, "")
  \/ \E message \in LaunchErrors : BrowserExits(FALSE, message)

Next ==
  \/ CallSearchArtwork
  \/ CallGetArtworkDetails
  \/ CallGetArtworkImage
  \/ CallGetUserSets
  \/ CallOpenImageInBrowser
  \/ CallGetUserSetDetails
  \/ CallGetArtistTimeline
  \/ CallUnknownTool
  \/ UpstreamAnswers
  \/ LaunchEnds
  \/ NextRequest

Spec == Init /\ [][Next]_vars

(***************************************************************************)
(* The life of the process: the start of the server, then tool calls, a    *)
(* few of them, so that a call can be told from one served before it.      *)
(***************************************************************************)
\* the environment variable: not set, set to nothing, or set to a key
Environments == {Undefined, Str(""), Str(ApiKey)}

InitProcess ==
  /\ pc = "starting"
  /\ request = NoRequest
  /\ netCalls = <<>>
  /\ browserCalls = <<>>
  /\ response = NotYet
  /\ launch = "none"
  /\ launchError = ""
  /\ outcome = NoOutcome
  /\ env \in Environments
  /\ instance = NoInstance
  /\ envReads = 0
  /\ earlier = NoEarlier
  /\ suspended = <<>>

\* the argument object with the one field
With(field, value) == Arguments([EmptyBag EXCEPT ![field] = value])

RepeatedCall ==
  /\ Idle
  /\ \/ \E args \in {With("q", Str("night watch")), Arguments(EmptyBag)} :
          HandleSearchArtwork(args)
     \/ \E args \in {With("objectNumber", Str("SK-C-5")), NoArguments} :
          HandleGetArtworkDetails(args)
     \/ \E args \in {With("objectNumber", Str("SK-C-5")),
                      With("culture", Str("nl"))} :
          HandleGetArtworkImage(args)
     \/ \E args \in {Arguments(EmptyBag), With("page", Num(1001))} :
          HandleGetUserSets(args)
     \/ \E args \in {With("setId", Str("123-my set")), With("setId", Null)} :
          HandleGetUserSetDetails(args)
     \/ \E args \in {With("imageUrl", Str("http://x/y")),
                      With("imageUrl", Str("not-a-url"))} :
          HandleOpenImageInBrowser(args)
     \/ \E args \in {With("artist", Str("Rembrandt van Rijn")),
                      With("maxWorks", Num(5))} :
          HandleGetArtistTimeline(args)
     \/ HandleUnknownTool("get_artwork", Arguments(EmptyBag))

NextProcess ==
  \/ Startup
  \/ GetInstanceAgain
  \/ RepeatedCall
  \/ UpstreamAnswers
  \/ LaunchEnds
  \/ NextRequest
  \/ NextRequestRemembered

SpecProcess == InitProcess /\ [][NextProcess]_vars

(***************************************************************************)
(* Several tool calls in flight: the transport hands over a tool call      *)
(* while the handlers of earlier ones stand at their await, and the        *)
(* awaited promises settle in any order.                                   *)
(***************************************************************************)
ConcurrentCall ==
  /\ Idle
  /\ \/ \E args \in {Arguments(EmptyBag), With("page", Num(10)),
                      With("pageSize", Num(101))} :
          HandleGetUserSets(args)
     \/ \E args \in {With("objectNumber", Str("SK-C-5")), NoArguments} :
          HandleGetArtworkDetails(args)
     \/ HandleOpenImageInBrowser(With("imageUrl", Str("http://x/y")))

ConcurrentAnswers ==
  \/ \E resp \in UserSetsResponses : ResumeGetUserSets(resp)
  \/ \E resp \in ArtObjectResponses : ResumeGetArtworkDetails(resp)

Continue == \E i \in 1..(MaxInFlight - 1) : Unpark(i)

NextConcurrent ==
  \/ ConcurrentCall
  \/ Park
  \/ Continue
  \/ ConcurrentAnswers
  \/ LaunchEnds
  \/ GetInstanceAgain
  \/ NextRequest
  \/ NextRequestRemembered

SpecConcurrent == Init /\ [][NextConcurrent]_vars

(***************************************************************************)
(* Vocabulary of the properties below.                                     *)
(***************************************************************************)
Done == pc = "done"

Dispatched == pc # "idle"

Args == request.arguments

\* the field of the argument bag, undefined when the bag itself is absent
Field(name) == IF Args.defined THEN Args.f[name] ELSE Undefined

NoOutboundCall == netCalls = <<>> /\ browserCalls = <<>>

\* the error kinds, told apart by the cause the thrown message states
MissingRequiredParameter(o) ==
  /\ o.kind = "error"
  /\ StartsWith(o.error.message, "Missing required parameter: ")

InvalidArgumentMessages ==
  {"Invalid arguments for search_artwork",
   "Invalid arguments for get_user_set_details",
   "Invalid arguments for open_image_in_browser",
   "Page * pageSize cannot exceed 10,000",
   "Page size must be between 1 and 100"}

InvalidArgument(o) ==
  /\ o.kind = "error"
  /\ o.error.message \in InvalidArgumentMessages

UnknownOperation(o) ==
  /\ o.kind = "error"
  /\ StartsWith(o.error.message, "Unknown tool: ")

RequiredField ==
  [name \in {"get_artwork_details", "get_artwork_image",
             "get_user_set_details", "open_image_in_browser",
             "get_artist_timeline"} |->
    CASE name \in {"get_artwork_details", "get_artwork_image"} -> "objectNumber"
      [] name = "get_user_set_details"  -> "setId"
      [] name = "open_image_in_browser" -> "imageUrl"
      [] OTHER                          -> "artist"]

\* the call carries an argument object in which the required field is
\* absent or null
RequiredFieldMissing ==
  /\ request.name \in DOMAIN RequiredField
  /\ Args.defined
  /\ Field(RequiredField[request.name]).t \in {"undefined", "null"}

(***************************************************************************)
(* C1.  A call of a tool with a required field (objectNumber, setId,       *)
(* imageUrl, artist) in which that field is absent or null ends with a     *)
(* MissingRequiredParameter error, and issues no outbound call and no      *)
(* browser launch.  The code does not do this: open_image_in_browser       *)
(* without imageUrl fails its type guard and ends with "Invalid arguments  *)
(* for open_image_in_browser", which handleError throws on as an           *)
(* InternalError.                                                          *)
(***************************************************************************)
C1_MissingRequiredParameter ==
  RequiredFieldMissing =>
    /\ NoOutboundCall
    /\ Dispatched => Done /\ MissingRequiredParameter(outcome)

(***************************************************************************)
(* C2.  The pagination ceiling.  For search_artwork (p, ps), get_user_sets *)
(* and get_user_set_details (page, pageSize), the other arguments valid    *)
(* and the defaults applied: a product above 10000 is rejected with        *)
(* InvalidArgument and no network call; a product of exactly 10000 is      *)
(* accepted and the upstream call is made.                                 *)
(***************************************************************************)
Paginated == {"search_artwork", "get_user_sets", "get_user_set_details"}

IsNumber(v) == v.t = "number" /\ ~IsNaN(v)

PageIndex ==
  IF request.name = "search_artwork" THEN Default(Field("p"), Num(0))
  ELSE Default(Field("page"), Num(0))

PageSize ==
  CASE request.name = "search_artwork"       -> Default(Field("ps"), Num(10))
    [] request.name = "get_user_set_details" -> Default(Field("pageSize"), Num(25))
    [] OTHER                                 -> Default(Field("pageSize"), Num(10))

\* the arguments other than the page index and the page size are valid
OtherArgumentsValid ==
  /\ Args.defined
  /\ request.name = "search_artwork" =>
       TypesOk(Args.f) /\ HasFilter(Args.f)
  /\ request.name = "get_user_sets" =>
       Field("culture").t = "undefined" \/ Includes(Cultures, Field("culture"))
  /\ request.name = "get_user_set_details" =>
       Field("setId").t = "string" /\ Field("setId").s # ""

PaginatedRequest ==
  /\ request.name \in Paginated
  /\ OtherArgumentsValid
  /\ IsNumber(PageIndex)
  /\ IsNumber(PageSize)

Product == PageIndex.n * PageSize.n

AboveCeilingRejected ==
  PaginatedRequest /\ Product > 10000 =>
    /\ netCalls = <<>>
    /\ Dispatched => Done /\ InvalidArgument(outcome)

Accepted == Dispatched /\ Len(netCalls) = 1

\* the property as documented: violated by get_user_sets with page 10 and
\* pageSize 1000, whose product is 10000 and whose page size is refused
C2_Original ==
  /\ AboveCeilingRejected
  /\ PaginatedRequest /\ Product = 10000 => Accepted

\* the page size the user-set operations accept
PageSizeInRange ==
  request.name = "search_artwork" \/ (PageSize.n >= 1 /\ PageSize.n <= 100)

\* as amended: at the ceiling the request is accepted when the page size
\* of a user-set operation lies in 1..100
C2_PaginationCeiling ==
  /\ AboveCeilingRejected
  /\ PaginatedRequest /\ Product = 10000 /\ PageSizeInRange => Accepted

C2_Witness ==
  /\ request.name = "get_user_sets"
  /\ PaginatedRequest
  /\ Product = 10000
  /\ Field("page") = Num(100)
  /\ pc = "awaitUpstream"
  /\ Len(netCalls) = 1

(***************************************************************************)
(* C3.  A search_artwork call whose argument bag holds no field (an empty  *)
(* object, or no arguments at all) is rejected with InvalidArgument and    *)
(* issues no upstream call.                                                *)
(***************************************************************************)
NoFilterField ==
  /\ request.name = "search_artwork"
  /\ \A f \in SearchFields : Field(f) = Undefined

C3_NoFilterRejected ==
  NoFilterField =>
    /\ netCalls = <<>>
    /\ Dispatched => Done /\ InvalidArgument(outcome)

C3_Witness ==
  /\ NoFilterField
  /\ Args.defined
  /\ Done
  /\ outcome.kind = "error"

(***************************************************************************)
(* C4.  A search_artwork call whose bag holds exactly one field, of the    *)
(* right type and with a legal value, passes validation and reaches the    *)
(* upstream call, whichever of the thirteen fields it is.  The code does   *)
(* not do this: the guard asks for a truthy q, involvedMaker, type,        *)
(* material, technique, century or color, so century 0, imgonly, p and     *)
(* the other fields alone are rejected.                                    *)
(***************************************************************************)
StringFields == {"q", "involvedMaker", "type", "material", "technique", "color"}

\* a value the tool's input schema allows for the field
Legal(f, v) ==
  CASE f \in StringFields -> v.t = "string" /\ v.s # ""
    [] f = "century"      -> IsNumber(v) /\ v.n >= -1 /\ v.n <= 21
    [] f \in {"imgonly", "toppieces"} -> v.t = "boolean"
    [] f = "sortBy"       -> v.t = "string" /\ v.s \in SortKeys
    [] f = "p"            -> IsNumber(v) /\ v.n >= 0
    [] f = "ps"           -> IsNumber(v) /\ v.n >= 1 /\ v.n <= 100
    [] OTHER              -> v.t = "string" /\ v.s \in Cultures

OneLegalField ==
  /\ request.name = "search_artwork"
  /\ Args.defined
  /\ \E f \in SearchFields :
       /\ Legal(f, Field(f))
       /\ \A g \in SearchFields \ {f} : Field(g) = Undefined

C4_OneFieldAccepted == OneLegalField => Accepted

(***************************************************************************)
(* C5.  A search_artwork call is rejected before any upstream call when a  *)
(* field it carries has the wrong primitive type, or its sortBy is not one *)
(* of the six sort keys, or its culture is neither nl nor en, whatever its *)
(* other fields hold.                                                      *)
(***************************************************************************)
IllTyped(f, v) ==
  /\ v.t # "undefined"
  /\ CASE f \in StringFields -> v.t # "string"
       [] f \in {"century", "p", "ps"} -> v.t # "number"
       [] f \in {"imgonly", "toppieces"} -> v.t # "boolean"
       [] f = "sortBy" ->
            ~(v.t = "string"
              /\ v.s \in {"relevance", "objecttype", "chronologic",
                          "achronologic", "artist", "artistdesc"})
       [] OTHER -> ~(v.t = "string" /\ v.s \in {"nl", "en"})

SomeFieldIllTyped ==
  /\ request.name = "search_artwork"
  /\ Args.defined
  /\ \E f \in SearchFields : IllTyped(f, Field(f))

C5_IllTypedRejected ==
  SomeFieldIllTyped =>
    /\ netCalls = <<>>
    /\ Dispatched => Done /\ outcome.kind = "error"

\* a sort key outside the six, beside a filter that alone would pass
C5_Witness ==
  /\ SomeFieldIllTyped
  /\ Field("sortBy") = Str("newest")
  /\ Field("q") = Str("night watch")
  /\ Done
  /\ InvalidArgument(outcome)

(***************************************************************************)
(* C6.  open_image_in_browser with an imageUrl that is not a string        *)
(* beginning with "http://" or "https://" ends with InvalidArgument and    *)
(* never invokes the browser launcher.  The code does not do this: its     *)
(* guard tests startsWith('http'), so "httpfoo" is launched.               *)
(***************************************************************************)
HttpUrl(v) ==
  /\ v.t = "string"
  /\ StartsWith(v.s, "http://") \/ StartsWith(v.s, "https://")

C6_NonHttpUrlRejected ==
  request.name = "open_image_in_browser" /\ ~HttpUrl(Field("imageUrl")) =>
    /\ browserCalls = <<>>
    /\ Dispatched => Done /\ InvalidArgument(outcome)

(***************************************************************************)
(* C7.  open_image_in_browser with an accepted HTTP(S) URL invokes the     *)
(* browser launcher exactly once, with that URL, and never calls the       *)
(* upstream client, whether the launch succeeds or fails.                  *)
(***************************************************************************)
C7_LaunchedOnce ==
  request.name = "open_image_in_browser" /\ HttpUrl(Field("imageUrl")) =>
    /\ netCalls = <<>>
    /\ Dispatched => browserCalls = <<Field("imageUrl").s>>

C7_Witness ==
  /\ request.name = "open_image_in_browser"
  /\ Field("imageUrl") = Str("http://x/y")
  /\ Done
  /\ launch = "failed"
  /\ browserCalls = <<"http://x/y">>

(***************************************************************************)
(* C8.  When open_image_in_browser passed validation and the launcher      *)
(* failed, the call returns a result with isError true and one text block  *)
(* that describes the failure; nothing is thrown.                          *)
(***************************************************************************)
LauncherFailed ==
  request.name = "open_image_in_browser" /\ launch = "failed"

C8_LaunchFailureReturned ==
  LauncherFailed =>
    /\ Done
    /\ outcome.kind = "result"
    /\ outcome.isError
    /\ Len(outcome.content) = 1
    /\ outcome.content[1].type = "text"
    /\ \E message \in LaunchErrors :
         outcome.content[1].text = "Failed to open image in browser: " \o message

C8_Witness ==
  /\ LauncherFailed
  /\ isOpenImageArguments(Args)
  /\ outcome.kind = "result"
  /\ outcome.isError

(***************************************************************************)
(* C9.  A result with isError true is returned only by                     *)
(* open_image_in_browser after a launcher failure.  Every other failure    *)
(* (a call rejected before any outbound call, an upstream call that was    *)
(* not answered with a 2xx, a 2xx payload without the promised key) ends   *)
(* with a thrown protocol error and no result.                             *)
(***************************************************************************)
UpstreamFailed == response.status \in {"http", "none", "setup"}

\* a 2xx payload that lacks the key the operation's contract promises
ContractViolated ==
  /\ response.status = "ok"
  /\ CASE request.name \in {"search_artwork", "get_artist_timeline"} ->
            response.data.artObjects.k # "array"
       [] request.name = "get_artwork_details" ->
            response.data.artObject.k = "absent"
       [] request.name = "get_artwork_image" ->
            response.data.levels.k # "array"
       [] request.name = "get_user_sets" ->
            response.data.userSets.k # "array"
       [] request.name = "get_user_set_details" ->
            \/ ~response.data.hasUserSet
            \/ response.data.userSet.setItems.k # "array"
       [] OTHER -> FALSE

RejectedBeforeAnyCall == Done /\ NoOutboundCall

C9_OnlyLaunchFailureFlagged ==
  /\ outcome.kind = "result" /\ outcome.isError => LauncherFailed
  /\ Done /\ ~LauncherFailed
       /\ (RejectedBeforeAnyCall \/ UpstreamFailed \/ ContractViolated)
     => outcome.kind = "error" /\ outcome.error.cls = "McpError"

C9_Witness ==
  /\ request.name = "search_artwork"
  /\ Done
  /\ response.status = "http"
  /\ outcome.kind = "error"
  /\ outcome.error.cls = "McpError"

(***************************************************************************)
(* C10.  An InvalidArgument, MissingRequiredParameter or UnknownOperation  *)
(* failure reaches the caller with a request-level error code, an upstream *)
(* failure with the internal-error code.  The code does not do this: the   *)
(* guards, the client's bound checks and the default branch throw a plain  *)
(* Error, which handleError throws on as an InternalError.                 *)
(***************************************************************************)
ClientFaultCodes == {"InvalidRequest", "InvalidParams", "MethodNotFound"}

C10_ErrorCodes ==
  Done /\ outcome.kind = "error" =>
    /\ \/ InvalidArgument(outcome)
       \/ MissingRequiredParameter(outcome)
       \/ UnknownOperation(outcome)
       => outcome.error.code \in ClientFaultCodes
    /\ UpstreamFailed \/ ContractViolated
       => outcome.error.code = "InternalError"

(***************************************************************************)
(* C11.  Dispatch is total over the seven declared tool names: a request   *)
(* with a declared name runs its own handler (its outbound calls are those *)
(* of the tool's own client method, only open_image_in_browser launches    *)
(* the browser, and a guard's complaint names the tool), and a request     *)
(* with any other name ends with "Unknown tool: <name>", with no upstream  *)
(* call and no browser launch.                                             *)
(***************************************************************************)
ClientMethod ==
  [name \in {"search_artwork", "get_artwork_details", "get_artwork_image",
             "get_user_sets", "get_user_set_details", "get_artist_timeline"} |->
    CASE name = "search_artwork"       -> "searchArtworks"
      [] name = "get_artwork_details"  -> "getArtworkDetails"
      [] name = "get_artwork_image"    -> "getArtworkImageTiles"
      [] name = "get_user_sets"        -> "getUserSets"
      [] name = "get_user_set_details" -> "getUserSetDetails"
      [] OTHER                         -> "getArtistTimeline"]

DeclaredTools == DOMAIN ClientMethod \cup {"open_image_in_browser"}

RoutedToOwnHandler ==
  /\ ~UnknownOperation(outcome)
  /\ IF request.name = "open_image_in_browser"
     THEN netCalls = <<>>
     ELSE /\ browserCalls = <<>>
          /\ \A i \in DOMAIN netCalls :
               netCalls[i].op = ClientMethod[request.name]
  /\ outcome.kind = "error"
       /\ StartsWith(outcome.error.message, "Invalid arguments for ")
     => outcome.error.message = "Invalid arguments for " \o request.name

C11_DispatchTotal ==
  Dispatched =>
    IF request.name \in DeclaredTools
    THEN RoutedToOwnHandler
    ELSE /\ Done
         /\ outcome.kind = "error"
         /\ outcome.error.message = "Unknown tool: " \o request.name
         /\ NoOutboundCall

C11_Witness ==
  /\ request.name = "Search_Artwork"
  /\ Done
  /\ UnknownOperation(outcome)
  /\ NoOutboundCall

(***************************************************************************)
(* C12.  When the upstream answers a call with a status outside 2xx, the   *)
(* request ends with a thrown error that reports an upstream API error and *)
(* whose message contains the numeric status code; no result is returned.  *)
(***************************************************************************)
\* sub occurs in s
Contains(s, sub) ==
  \E i \in 1..(Len(s) - Len(sub) + 1) : SubSeq(s, i, i + Len(sub) - 1) = sub

UpstreamProtocolFailure(o) ==
  /\ o.kind = "error"
  /\ o.error.cls = "McpError"
  /\ StartsWith(o.error.message, "Rijksmuseum API error: ")

C12_StatusInMessage ==
  response.status = "http" =>
    /\ Done
    /\ UpstreamProtocolFailure(outcome)
    /\ Contains(outcome.error.message, ToString(response.code))
    /\ outcome.content = <<>>

C12_Witness ==
  /\ request.name = "get_user_set_details"
  /\ response.status = "http"
  /\ response.code = 404
  /\ Len(netCalls) = 1
  /\ Contains(outcome.error.message, "404")

(***************************************************************************)
(* C13.  When a 2xx payload lacks the key the operation's contract         *)
(* promises (artObjects, artObject, levels, userSets, userSet, or the      *)
(* setItems of the user set), the request ends with a thrown error that    *)
(* reports an invalid upstream response, never with a result.  The code    *)
(* does not do this for setItems: the client lets a user set without       *)
(* setItems through and the handler fails on setItems.map with a           *)
(* TypeError, whose message says nothing of the upstream response.         *)
(***************************************************************************)
PromisedKeyMissing ==
  /\ response.status = "ok"
  /\ CASE request.name \in {"search_artwork", "get_artist_timeline"} ->
            response.data.artObjects.k = "absent"
       [] request.name = "get_artwork_details" ->
            response.data.artObject.k = "absent"
       [] request.name = "get_artwork_image" ->
            response.data.levels.k = "absent"
       [] request.name = "get_user_sets" ->
            response.data.userSets.k = "absent"
       [] request.name = "get_user_set_details" ->
            \/ ~response.data.hasUserSet
            \/ response.data.userSet.setItems.k = "absent"
       [] OTHER -> FALSE

UpstreamContractViolation(o) ==
  /\ o.kind = "error"
  /\ StartsWith(o.error.message, "Invalid response from Rijksmuseum API")

C13_MissingKeyReported ==
  PromisedKeyMissing => Done /\ UpstreamContractViolation(outcome)

(***************************************************************************)
(* C14.  In the result of get_artist_timeline the year of each work is the *)
(* first four consecutive digits of that art object's longTitle, and it is *)
(* "Unknown" exactly when the longTitle holds no four consecutive digits.  *)
(***************************************************************************)
TimelineReturned ==
  /\ request.name = "get_artist_timeline"
  /\ Done
  /\ outcome.kind = "result"

\* the works of the result and the art objects of the payload
Works == outcome.content[1].text.works

ArtObjects == response.data.artObjects.items

FourDigitsAt(s, j) ==
  /\ j + 3 <= Len(s)
  /\ \A k \in j..(j + 3) : SubSeq(s, k, k) \in Digits

HasFourDigits(s) == \E j \in 1..Len(s) : FourDigitsAt(s, j)

C14_YearOfWork ==
  TimelineReturned =>
    \A i \in DOMAIN Works :
      LET longTitle == ArtObjects[i].longTitle
          year == Works[i].year
      IN  /\ year = "Unknown" <=> ~HasFourDigits(longTitle)
          /\ HasFourDigits(longTitle) =>
               \E j \in 1..Len(longTitle) :
                 /\ FourDigitsAt(longTitle, j)
                 /\ \A h \in 1..(j - 1) : ~FourDigitsAt(longTitle, h)
                 /\ year = SubSeq(longTitle, j, j + 3)

\* a longer run of digits before the year, and a title without a year
C14_Witness ==
  /\ TimelineReturned
  /\ Len(Works) = 2
  /\ ArtObjects[1].objectNumber = "RP-P-2"
  /\ Works[1].year = "1002"
  /\ ArtObjects[2].objectNumber = "RP-P-1"
  /\ Works[2].year = "Unknown"

(***************************************************************************)
(* C15.  The works of a get_artist_timeline result are as many as the art  *)
(* objects of the upstream payload, and the i-th work is made from the     *)
(* i-th art object: nothing is re-sorted, dropped or duplicated, works of  *)
(* unknown year included.                                                  *)
(***************************************************************************)
C15_WorksInUpstreamOrder ==
  TimelineReturned =>
    /\ Len(Works) = Len(ArtObjects)
    /\ \A i \in DOMAIN Works :
         /\ Works[i].objectNumber = ArtObjects[i].objectNumber
         /\ Works[i].title = ArtObjects[i].title
         /\ Works[i].description = ArtObjects[i].longTitle

\* a work of unknown year listed before a dated one, as the upstream sent
C15_Witness ==
  /\ TimelineReturned
  /\ Len(ArtObjects) = 2
  /\ Works[1].objectNumber = "RP-P-1"
  /\ Works[1].year = "Unknown"
  /\ Works[2].objectNumber = "SK-C-5"
  /\ Works[2].year = "1642"

(***************************************************************************)
(* C16.  The works of a get_artist_timeline result are in chronological    *)
(* order: of two adjacent works with numeric years the first has the       *)
(* smaller or equal year, in whatever order the upstream lists the art     *)
(* objects.  The code does not do this: it keeps the upstream's order and  *)
(* only asks the upstream to sort.                                         *)
(***************************************************************************)
NumericYear(work) == work.year # "Unknown"

C16_WorksChronological ==
  TimelineReturned =>
    \A i \in 1..(Len(Works) - 1) :
      NumericYear(Works[i]) /\ NumericYear(Works[i + 1]) =>
        DecimalValue(Works[i].year) <= DecimalValue(Works[i + 1].year)

(***************************************************************************)
(* C17.  Dispatch is deterministic: a tool call with the same name and     *)
(* arguments as one served before, whose collaborators answer as they did  *)
(* then (the same upstream payload, the same end of the browser launch),   *)
(* ends with the same result text or the same error, whatever calls were   *)
(* served before or between the two.                                       *)
(***************************************************************************)
SameCallSameAnswers ==
  /\ Done
  /\ earlier # NoEarlier
  /\ earlier.request = request
  /\ earlier.response = response
  /\ earlier.launch = launch
  /\ earlier.launchError = launchError

C18_KeyReadOnce ==
  /\ envReads <= 1
  /\ ~Truthy(env) =>
       /\ pc \in {"starting", "fatal"}
       /\ instance = NoInstance
       /\ request = NoRequest
       /\ NoOutboundCall
  /\ pc \notin {"starting", "fatal"} =>
       /\ envReads = 1
       /\ instance.id = 1
       /\ instance.apiKey = env.s

C18_Witness ==
  /\ Done
  /\ earlier # NoEarlier
  /\ request.name = "search_artwork"
  /\ Len(netCalls) = 1
  /\ envReads = 1
  /\ instance.apiKey = ApiKey

(***************************************************************************)
(* C19.  Within one tool call the stages come in a fixed order.  While the *)
(* upstream call is pending every check of the arguments has passed, the   *)
(* call is the one built from them, and nothing is returned yet; a call    *)
(* rejected for its arguments has issued no upstream call; a result of an  *)
(* upstream-backed tool is returned only after a 2xx answer to its one     *)
(* call; a failed upstream call never ends in a result.                    *)
(***************************************************************************)
\* what the handler and the client method make of the arguments
Checked ==
  CASE request.name = "search_artwork" ->
         IF isSearchArtworkArguments(Args)
         THEN searchArtworks(Args.f)
         ELSE Before(Error("Invalid arguments for search_artwork"), NoCall)
    [] request.name = "get_artwork_details" ->
         IF validateRequiredParam(Field("objectNumber"), "objectNumber") = NoError
         THEN getArtworkDetails(Field("objectNumber"), Field("culture"))
         ELSE Before(validateRequiredParam(Field("objectNumber"), "objectNumber"),
                     NoCall)
    [] request.name = "get_artwork_image" ->
         IF validateRequiredParam(Field("objectNumber"), "objectNumber") = NoError
         THEN getArtworkImageTiles(Field("objectNumber"), Field("culture"))
         ELSE Before(validateRequiredParam(Field("objectNumber"), "objectNumber"),
                     NoCall)
    [] request.name = "get_user_sets" ->
         getUserSets(Field("page"), Field("pageSize"), Field("culture"))
    [] request.name = "get_user_set_details" ->
         IF isGetUserSetDetailsArguments(Args)
         THEN getUserSetDetails(Field("setId"), Field("culture"),
                                Field("page"), Field("pageSize"))
         ELSE Before(Error("Invalid arguments for get_user_set_details"), NoCall)
    [] request.name = "get_artist_timeline" ->
         IF validateRequiredParam(Field("artist"), "artist") = NoError
         THEN getArtistTimeline(Field("artist"), Field("maxWorks"))
         ELSE Before(validateRequiredParam(Field("artist"), "artist"), NoCall)
    [] OTHER -> Before(NoError, NoCall)

ValidationMessages ==
  InvalidArgumentMessages
    \cup {"Object number is required", "Set ID is required",
          "Artist name is required"}

RejectedInValidation ==
  /\ outcome.kind = "error"
  /\ \/ outcome.error.message \in ValidationMessages
     \/ StartsWith(outcome.error.message, "Missing required parameter: ")
     \/ StartsWith(outcome.error.message, "Cannot destructure property ")

C19_StagesInOrder ==
  /\ pc = "awaitUpstream" =>
       /\ Args.defined
       /\ Checked.error = NoError
       /\ netCalls = <<Checked.call>>
       /\ response = NotYet
       /\ outcome = NoOutcome
  /\ RejectedInValidation => netCalls = <<>> /\ response = NotYet
  /\ outcome.kind = "result" /\ request.name \in DOMAIN ClientMethod =>
       Len(netCalls) = 1 /\ response.status = "ok"
  /\ UpstreamFailed => Done /\ outcome.kind = "error"

\* a call that went through the three stages
C19_Witness ==
  /\ request.name = "get_user_set_details"
  /\ Done
  /\ outcome.kind = "result"
  /\ netCalls = <<Checked.call>>
  /\ Len(response.data.userSet.setItems.items) = 1

(***************************************************************************)
(* C20.  No tool call issues more than one outbound network call: when the *)
(* upstream call fails, in whatever way, the tool call ends with an error  *)
(* at once and the call is not sent again.                                 *)
(***************************************************************************)
C20_AtMostOneCall ==
  /\ Len(netCalls) <= 1
  /\ UpstreamFailed =>
       /\ Done
       /\ outcome.kind = "error"
       /\ Len(netCalls) = 1

C20_Witness ==
  /\ request.name = "search_artwork"
  /\ response.status = "none"
  /\ Done
  /\ outcome.kind = "error"
  /\ Len(netCalls) = 1

(***************************************************************************)
(* C21: every dispatched request ends in exactly one outcome: one returned *)
(* ToolCallResult with its one text entry, or one thrown protocol error,   *)
(* never both, and never a normal return without a result.  A request has  *)
(* an outcome exactly when it has ended, and a request that awaits its     *)
(* upstream call or its browser launch can always be brought to its end.   *)
(***************************************************************************)
ReturnedResult(o) ==
  /\ o.kind = "result"
  /\ Len(o.content) = 1
  /\ o.content[1].type = "text"
  /\ o.error = NoError

ThrownProtocolError(o) ==
  /\ o.kind = "error"
  /\ o.content = <<>>
  /\ ~o.isError
  /\ o.error.cls = "McpError"

C21_ExactlyOneOutcome ==
  /\ Done => (ReturnedResult(outcome) \/ ThrownProtocolError(outcome))
  /\ ~Done => outcome = NoOutcome
  /\ pc = "awaitUpstream" => ENABLED UpstreamAnswers
  /\ pc = "awaitBrowser" => ENABLED LaunchEnds

C21_Witness ==
  /\ Done
  /\ ThrownProtocolError(outcome)
  /\ Len(netCalls) = 1
  /\ response # NotYet

(***************************************************************************)
(* C22: with several requests in flight and their upstream calls           *)
(* completing in any order, each request stays with its own arguments and  *)
(* its own response: the call it has issued is the one built from its own  *)
(* arguments, a parked request is left as it stood at its await, a request *)
(* that ends ends as the same request with the same answers ended before,  *)
(* whatever was in flight then, and the configuration the requests share   *)
(* (the instance with the API key) is never modified.                      *)
(***************************************************************************)
OwnCallIssued ==
  /\ Len(netCalls) <= 1
  /\ Len(netCalls) = 1 => netCalls = <<Checked.call>>
  /\ Len(browserCalls) <= 1
  /\ Len(browserCalls) = 1 => browserCalls = <<Field("imageUrl").s>>

ParkedUntouched ==
  \A i \in DOMAIN suspended :
    /\ suspended[i].pc \in {"awaitUpstream", "awaitBrowser"}
    /\ suspended[i].response = NotYet
    /\ suspended[i].launch = "none"
    /\ suspended[i].outcome = NoOutcome
    /\ Len(suspended[i].netCalls) + Len(suspended[i].browserCalls) = 1

SharedConfigurationKept ==
  /\ env = Str(ApiKey)
  /\ instance = getInstance(NoInstance, 0, Str(ApiKey)).instance
  /\ envReads = 1

Sent == netCalls[1]

OrDefault(v, d) == IF v = Undefined THEN d ELSE v

LocaleSent(rest) ==
  Sent.path = JsString(OrDefault(Field("culture"), Str("en"))) \o rest

PageSent(d) ==
  /\ Sent.params["page"] = OrDefault(Field("page"), Num(0))
  /\ Sent.params["pageSize"] = OrDefault(Field("pageSize"), Num(d))

SortSent == Sent.params["s"] = OrDefault(Field("sortBy"), Str("relevance"))

DefaultsSentButSort ==
  CASE request.name = "search_artwork" ->
         /\ Sent.params["p"] = OrDefault(Field("p"), Num(0))
         /\ Sent.params["ps"] = OrDefault(Field("ps"), Num(10))
         /\ LocaleSent("/" \o COLLECTION)
    [] request.name = "get_artwork_details" ->
         LocaleSent("/" \o COLLECTION \o "/"
                      \o encodeURIComponent(JsString(Field("objectNumber"))))
    [] request.name = "get_artwork_image" ->
         LocaleSent("/" \o COLLECTION \o "/"
                      \o encodeURIComponent(JsString(Field("objectNumber")))
                      \o "/tiles")
    [] request.name = "get_user_sets" ->
         PageSent(10) /\ LocaleSent("/usersets")
    [] request.name = "get_user_set_details" ->
         /\ PageSent(25)
         /\ LocaleSent("/usersets/"
                         \o encodeURIComponent(JsString(Field("setId"))))
    [] OTHER -> TRUE

C23_DefaultsSent ==
  Len(netCalls) = 1 =>
    /\ DefaultsSentButSort
    /\ request.name = "search_artwork" => SortSent

(***************************************************************************)
(* C24: get_user_sets and get_user_set_details reject a request before any *)
(* network call whenever the page index supplied is negative or the page   *)
(* size supplied lies outside 1..100, and accept a request whose page      *)
(* index is at least 0, whose page size lies in 1..100 and whose product   *)
(* is at most 10000.                                                       *)
(***************************************************************************)
UserSetOperation == request.name \in {"get_user_sets", "get_user_set_details"}

NegativePageSupplied == IsNumber(Field("page")) /\ Field("page").n < 0

PageSizeOutsideSupplied ==
  /\ IsNumber(Field("pageSize"))
  /\ (Field("pageSize").n < 1 \/ Field("pageSize").n > 100)

RejectedBeforeCall ==
  /\ netCalls = <<>>
  /\ Dispatched => Done /\ outcome.kind = "error"

PageBoundsAccepted ==
  UserSetOperation /\ PaginatedRequest /\ PageIndex.n >= 0
    /\ PageSize.n >= 1 /\ PageSize.n <= 100 /\ Product <= 10000 => Accepted

PageSizeOutsideRejected ==
  UserSetOperation /\ PageSizeOutsideSupplied => RejectedBeforeCall

C24_PageBounds ==
  /\ UserSetOperation /\ NegativePageSupplied => RejectedBeforeCall
  /\ PageSizeOutsideRejected
  /\ PageBoundsAccepted

(***************************************************************************)
(* C25: search_artwork accepts a century supplied only if it is an integer *)
(* in -1..21: a request whose century is below -1, above 21 or not an      *)
(* integer is rejected before any network call.                            *)
(***************************************************************************)
CenturySupplied ==
  request.name = "search_artwork" /\ Field("century") # Undefined

CenturyInRange ==
  /\ IsNumber(Field("century"))
  /\ Field("century").n >= -1
  /\ Field("century").n <= 21

C25_CenturyRange ==
  CenturySupplied /\ ~CenturyInRange => RejectedBeforeCall

(***************************************************************************)
(* C26: get_artist_timeline accepts a maxWorks supplied only if it is an   *)
(* integer in 1..50: a request with maxWorks 0, negative, above 50 or not  *)
(* an integer is rejected before any network call, so that the ps sent     *)
(* upstream always lies in 1..50.                                          *)
(***************************************************************************)
\* the artist is a non-empty string, so that nothing but maxWorks is at
\* stake
MaxWorksSupplied ==
  /\ request.name = "get_artist_timeline"
  /\ Field("artist").t = "string"
  /\ Field("artist").s # ""
  /\ Field("maxWorks") # Undefined

MaxWorksInRange ==
  /\ IsNumber(Field("maxWorks"))
  /\ Field("maxWorks").n >= 1
  /\ Field("maxWorks").n <= 50

C26_MaxWorksRange ==
  /\ MaxWorksSupplied /\ ~MaxWorksInRange => RejectedBeforeCall
  /\ MaxWorksSupplied /\ Len(netCalls) = 1 =>
       /\ IsNumber(Sent.params["ps"])
       /\ Sent.params["ps"].n >= 1
       /\ Sent.params["ps"].n <= 50

(***************************************************************************)
(* C27: the identifier of get_artwork_details and get_artwork_image        *)
(* (objectNumber), of get_user_set_details (setId) and of                  *)
(* get_artist_timeline (artist) must be a non-empty string: a request      *)
(* whose identifier is the empty string or a value that is not a string is *)
(* rejected as a required-parameter failure, and no network call is made.  *)
(***************************************************************************)
IdentifierOperations ==
  {"get_artwork_details", "get_artwork_image", "get_user_set_details",
   "get_artist_timeline"}

Identifier == Field(RequiredField[request.name])

\* the identifier is given, and is the empty string or not a string
IdentifierIllFormed ==
  /\ request.name \in IdentifierOperations
  /\ Identifier \notin {Undefined, Null}
  /\ ~(Identifier.t = "string" /\ Identifier.s # "")

\* a failure that names the parameter as missing or required
RequiredParameterFailure(o) ==
  \/ MissingRequiredParameter(o)
  \/ /\ o.kind = "error"
     /\ o.error.message \in {"Object number is required", "Set ID is required",
                             "Artist name is required"}

C27_IdentifierNonEmptyString ==
  IdentifierIllFormed =>
    /\ NoOutboundCall
    /\ Dispatched => Done /\ RequiredParameterFailure(outcome)

(***************************************************************************)
(* C28: formatting keeps the shape of the arrays and maps a missing        *)
(* optional upstream field to an explicit null.  The items of a            *)
(* get_user_set_details result are the upstream setItems, one entry each   *)
(* and in their order, with imageInfo null exactly when the item has no    *)
(* image; each work of a get_artist_timeline result has image null exactly *)
(* when the art object has no webImage.  No entry is left out and no value *)
(* is made up.                                                             *)
(***************************************************************************)
SetDetailsReturned ==
  /\ Done
  /\ request.name = "get_user_set_details"
  /\ outcome.kind = "result"

Items == outcome.content[1].text.items

SetItems == response.data.userSet.setItems.items

ItemKept(item, setItem) ==
  /\ item.objectNumber = setItem.objectNumber
  /\ item.links = setItem.links
  /\ item.imageInfo.k = "null" <=> ~setItem.hasImage
  /\ setItem.hasImage =>
       /\ item.imageInfo.url = setItem.image.cdnUrl
       /\ item.imageInfo.dimensions =
            JsString(setItem.image.width) \o "x" \o JsString(setItem.image.height)

WorkKept(work, artObject) ==
  /\ work.objectNumber = artObject.objectNumber
  /\ work.title = artObject.title
  /\ work.description = artObject.longTitle
  /\ work.image = Null <=> ~artObject.hasWebImage
  /\ artObject.hasWebImage => work.image = Str(artObject.webImageUrl)

C28_ShapeKept ==
  /\ SetDetailsReturned =>
       /\ Len(Items) = Len(SetItems)
       /\ \A i \in DOMAIN SetItems : ItemKept(Items[i], SetItems[i])
  /\ TimelineReturned =>
       /\ Len(Works) = Len(ArtObjects)
       /\ \A i \in DOMAIN ArtObjects : WorkKept(Works[i], ArtObjects[i])

\* a set whose first item has no image and whose second has one
C28_Witness ==
  /\ SetDetailsReturned
  /\ Len(SetItems) = 2
  /\ ~SetItems[1].hasImage
  /\ SetItems[2].hasImage
  /\ Items[1].imageInfo.k = "null"
  /\ Items[2].imageInfo.k = "object"

(***************************************************************************)
(* C29: every outbound request of the upstream client is issued under a    *)
(* locale path segment, the culture argument of the request or en when     *)
(* none is given: search, details, image tiles, user sets, set details and *)
(* artist timeline all request a path that begins with that segment.       *)
(***************************************************************************)
LocaleSegment == JsString(OrDefault(Field("culture"), Str("en"))) \o "/"

C29_LocaleSegment ==
  Len(netCalls) = 1 => StartsWith(Sent.path, LocaleSegment)

(***************************************************************************)
(* C30: in every successful result the summary counters agree with the     *)
(* payload they summarise and with what was sent upstream.  The count of a *)
(* search_artwork result is the number of artworks it lists;               *)
(* totalLevels of a get_artwork_image result is the number of upstream     *)
(* levels and the length of zoomLevels, and each tilesCount is the number  *)
(* of tiles of its level; fetchedSets of a get_user_sets result is the     *)
(* length of sets, and currentPage and pageSize are the page and the page  *)
(* size that were sent upstream.                                           *)
(***************************************************************************)
ResultOf(name) ==
  /\ Done
  /\ request.name = name
  /\ outcome.kind = "result"

Summary == outcome.content[1].text

Levels == response.data.levels.items

SearchCountersAgree ==
  /\ Summary.count = Len(Summary.artworks)
  /\ Summary.artworks = response.data.artObjects.items

ImageCountersAgree ==
  /\ Summary.totalLevels = Len(Levels)
  /\ Summary.totalLevels = Len(Summary.zoomLevels)
  /\ \A i \in DOMAIN Levels :
       Summary.zoomLevels[i].tilesCount = Len(Levels[i].tiles.items)

UserSetsCountersAgree ==
  /\ Summary.fetchedSets = Len(Summary.sets)
  /\ Summary.fetchedSets = Len(response.data.userSets.items)
  /\ Summary.currentPage = Sent.params["page"]
  /\ Summary.pageSize = Sent.params["pageSize"]

C30_CountersAgree ==
  /\ ResultOf("search_artwork") => SearchCountersAgree
  /\ ResultOf("get_artwork_image") => ImageCountersAgree
  /\ ResultOf("get_user_sets") => UserSetsCountersAgree

\* a page of user sets asked for with a page index and a page size of the
\* caller's, answered with one set out of seven
C30_Witness ==
  /\ ResultOf("get_user_sets")
  /\ Field("page") = Num(10)
  /\ Field("pageSize") = Num(100)
  /\ Summary.currentPage = Num(10)
  /\ Summary.pageSize = Num(100)
  /\ Summary.fetchedSets = 1
  /\ Summary.totalSets = 7

====
